---- MODULE Spec2Model ----
(***************************************************************************)
(* Training orchestration and checkpoint lifecycle of CLIP-Image-Captioning *)
(* (src/train.py): train() from argument validation to the final save, and  *)
(* the CheckpointSaver callback driven by the training engine's events.     *)
(***************************************************************************)
EXTENDS Integers, Sequences, FiniteSets, TLC

\* ---------------------------------------------------------------- bounds
MaxEpochs == 3
MaxNe == 2
MaxNs == 2

\* ------------------------------------------------------ argument domains
\* A device value is an int, a list of ints, a string or None; one record
\* shape carries all four so that values stay comparable.
GpuInt(n)  == [t |-> "int",  n |-> n, l |-> <<>>, s |-> ""]
GpuList(l) == [t |-> "list", n |-> 0, l |-> l,    s |-> ""]
GpuStr(s)  == [t |-> "str",  n |-> 0, l |-> <<>>, s |-> s]
GpuNone    == [t |-> "none", n |-> 0, l |-> <<>>, s |-> ""]

GpuInputs ==
    { GpuInt(0), GpuInt(-1), GpuInt(-2), GpuList(<<0, 1>>), GpuStr("0"), GpuStr("x"),
      GpuNone }

\* Optional[int]: None or an int.
NoneInt == [isNone |-> TRUE,  n |-> 0]
SomeInt(k) == [isNone |-> FALSE, n |-> k]

\* data_dir is a string; it is kept as its sequence of characters so that
\* str.split(",") can be computed.
DataDirs ==
    { <<"A", ",", "B">>, <<"C", ",", "D">>, <<"D", ",", "C">>,
      <<"C", ",">>, <<"C">>, <<>> }

DefaultPrefix == "demo_model.ckpt"

\* ------------------------------------------------------- pure functions
\* str.split(","): the pieces between commas, empty pieces kept; the empty
\* string splits into one empty piece.
RECURSIVE SplitFrom(_, _, _)
SplitFrom(s, i, cur) ==
    IF i > Len(s) THEN <<cur>>
    ELSE IF s[i] = "," THEN <<cur>> \o SplitFrom(s, i + 1, <<>>)
    ELSE SplitFrom(s, i + 1, Append(cur, s[i]))

Split(s) == SplitFrom(s, 1, <<>>)

\* len(data_dirs) < 2
TooFewDirs_AtLeastOne(data_dirs) == Len(data_dirs) < 1
TooFewDirs(data_dirs) == Len(data_dirs) < 2

\* len(TokenPrefixDataset(dir)): the item count of a source directory.
DirLen(dir) ==
    CASE dir = <<"A">> -> 100
      [] dir = <<"B">> -> 50
      [] dir = <<"C">> -> 2
      [] OTHER -> 1

\* len(MultiplePrefixDataset(*datasets)): the sum of the member lengths.
RECURSIVE CompositeLen(_)
CompositeLen(dirs) ==
    IF dirs = <<>> THEN 0 ELSE DirLen(Head(dirs)) + CompositeLen(Tail(dirs))

\* total_steps = len(dataset) * epochs
TotalSteps_PerEpoch(length, epochs) == length
TotalSteps(length, epochs) == length * epochs

\* if isinstance(gpu_devices, int) and gpu_devices != -1: gpu_devices = [gpu_devices]
ResolveDevices_WrapAll(g) ==
    IF g.t = "int" THEN GpuList(<<g.n>>) ELSE g
ResolveDevices(g) ==
    IF g.t = "int" /\ g.n # -1 THEN GpuList(<<g.n>>) ELSE g

\* epoch % self.save_every_n_epochs == 0
EpochQualifies_Next(epoch, ne) == (epoch + 1) % ne = 0
EpochQualifies(epoch, ne) == epoch % ne = 0

\* self.save_every_n_steps is not None and current_step % self.save_every_n_steps == 0
StepQualifies_Next(step, ns) == (~ns.isNone) /\ (step + 1) % ns.n = 0
StepQualifies(step, ns) == (~ns.isNone) /\ step % ns.n = 0

\* f"{self.filename_prefix}_epoch_{epoch}.ckpt"
EpochFile_NoEpoch(prefix, epoch) == prefix \o "_epoch_" \o ".ckpt"
EpochFile(prefix, epoch) == prefix \o "_epoch_" \o ToString(epoch) \o ".ckpt"

\* f"{self.filename_prefix}_latest.ckpt"
LatestFile_EpochZero(prefix) == prefix \o "_epoch_0.ckpt"
LatestFile(prefix) == prefix \o "_latest.ckpt"

\* f"{self.filename_prefix}_final.ckpt"
FinalFile_Latest(prefix) == prefix \o "_latest.ckpt"
FinalFile(prefix) == prefix \o "_final.ckpt"

\* ------------------------------------------------------------- the state
VARIABLES
    args,           \* the arguments train() was called with
    pc,             \* position of train(): start, model, devices, saver, trainer,
                    \* fit, final, done, aborted (an exception left train()),
                    \* terminated (the process was stopped from outside)
    error,          \* the exception that left train(), "" if none
    dataset,        \* the dataset built by lines 68-85
    total_steps,    \* line 88
    model,          \* the model built by lines 90-109
    gpu_devices,    \* the local gpu_devices, rebound by line 113
    saver,          \* the CheckpointSaver instance
    dirs_on_disk,   \* output directories that exist
    trainer,        \* the pl.Trainer: its arguments and its progress
    files,          \* checkpoint files on disk: name -> content
    saves,          \* number of trainer.save_checkpoint calls per kind of file
    delivered       \* what the engine has delivered to the callback so far

vars == << args, pc, error, dataset, total_steps, model, gpu_devices, saver,
           dirs_on_disk, trainer, files, saves, delivered >>

NoDataset == [loaded |-> FALSE, members |-> <<>>, length |-> 0]
NoModel   == [kind |-> "none", total_steps |-> 0]
NoSaver   == [created |-> FALSE, output_path |-> "", filename_prefix |-> "",
              save_every_n_epochs |-> 0, save_every_n_steps |-> NoneInt]
NoTrainer == [created |-> FALSE, gpus |-> GpuNone, max_epochs |-> 0,
              current_epoch |-> 0, global_step |-> 0, batch_idx |-> 0,
              phase |-> "idle"]

ArgSets ==
    [ data_dir : DataDirs,
      merge_datasets : BOOLEAN,
      output_dir : {"./models/"},
      output_name_prefix : {DefaultPrefix},
      epochs : 1..MaxEpochs,
      save_every_epochs : 1..MaxNe,
      save_every_steps : {NoneInt} \cup {SomeInt(k) : k \in 1..MaxNs},
      prefix_only : BOOLEAN,
      gpu_devices : GpuInputs ]

Init ==
    /\ args \in ArgSets
    /\ pc = "start"
    /\ error = ""
    /\ dataset = NoDataset
    /\ total_steps = 0
    /\ model = NoModel
    /\ gpu_devices = args.gpu_devices
    /\ saver = NoSaver
    /\ dirs_on_disk = {}
    /\ trainer = NoTrainer
    /\ files = <<>>
    /\ saves = [epoch |-> 0, latest |-> 0, final |-> 0]
    /\ delivered = [epochs |-> {}, steps |-> 0, last_step |-> 0]

\* ------------------------------------------------------ train(): set-up
\* lines 68-85: build the training dataset, or raise ValueError
PrepareDatasets ==
    /\ pc = "start"
    /\ IF args.merge_datasets
       THEN LET data_dirs == Split(args.data_dir) IN
            IF TooFewDirs(data_dirs)
            THEN /\ pc' = "aborted"
                 /\ error' = "ValueError"
                 /\ UNCHANGED dataset
            ELSE /\ pc' = "model"
                 /\ dataset' = [loaded |-> TRUE, members |-> data_dirs,
                                length |-> CompositeLen(data_dirs)]
                 /\ UNCHANGED error
       ELSE /\ pc' = "model"
            /\ dataset' = [loaded |-> TRUE, members |-> <<args.data_dir>>,
                           length |-> DirLen(args.data_dir)]
            /\ UNCHANGED error
    /\ UNCHANGED << args, total_steps, model, gpu_devices, saver, dirs_on_disk,
                    trainer, files, saves, delivered >>

\* lines 87-109: derive total_steps and construct the model
BuildModel ==
    /\ pc = "model"
    /\ total_steps' = TotalSteps(dataset.length, args.epochs)
    /\ model' = [kind |-> IF args.prefix_only THEN "CLIPCaptionPrefixOnly"
                          ELSE "CLIPCaptionModel",
                 total_steps |-> total_steps']
    /\ pc' = "devices"
    /\ UNCHANGED << args, error, dataset, gpu_devices, saver, dirs_on_disk,
                    trainer, files, saves, delivered >>

\* lines 111-113: the device argument
SelectDevices ==
    /\ pc = "devices"
    /\ gpu_devices' = ResolveDevices(gpu_devices)
    /\ pc' = "saver"
    /\ UNCHANGED << args, error, dataset, total_steps, model, saver, dirs_on_disk,
                    trainer, files, saves, delivered >>

\* lines 115-121 and 13-20: CheckpointSaver(...), which creates the output directory
CreateSaver ==
    /\ pc = "saver"
    /\ dirs_on_disk' = dirs_on_disk \cup {args.output_dir}
    /\ saver' = [created |-> TRUE,
                 output_path |-> args.output_dir,
                 filename_prefix |-> args.output_name_prefix,
                 save_every_n_epochs |-> args.save_every_epochs,
                 save_every_n_steps |-> args.save_every_steps]
    /\ pc' = "trainer"
    /\ UNCHANGED << args, error, dataset, total_steps, model, gpu_devices,
                    trainer, files, saves, delivered >>

\* ------------------------------------------------- the training engine
\* What pl.Trainer(gpus=...) makes of the device value it is handed, on a machine
\* that has the devices asked for: None, a device count or -1, a list of device
\* indices, or a string that spells one of these (the default "0") is taken;
\* a negative index or a string that spells no device raises.
DeviceStrings == {"0", "0,1", "-1"}

EngineAccepts(g) ==
    \/ g.t = "none"
    \/ g.t = "int" /\ g.n >= -1
    \/ g.t = "list" /\ \A i \in 1..Len(g.l) : g.l[i] >= 0
    \/ g.t = "str" /\ g.s \in DeviceStrings

\* lines 123-138: the dataloader (batch_size=1: one batch per dataset item),
\* the trainer, and the start of trainer.fit
CreateTrainer ==
    /\ pc = "trainer"
    /\ IF EngineAccepts(gpu_devices)
       THEN /\ trainer' = [created |-> TRUE, gpus |-> gpu_devices,
                           max_epochs |-> args.epochs, current_epoch |-> 0,
                           global_step |-> 0, batch_idx |-> 0,
                           phase |-> "batch_end"]
            /\ pc' = "fit"
            /\ UNCHANGED error
       ELSE /\ pc' = "aborted"
            /\ error' = "EngineError"
            /\ UNCHANGED trainer
    /\ UNCHANGED << args, dataset, total_steps, model, gpu_devices, saver,
                    dirs_on_disk, files, saves, delivered >>

\* The engine after a batch-end event: the global step and the batch index advance.
EngineNextBatch ==
    /\ pc = "fit"
    /\ trainer.phase = "batch_advance"
    /\ trainer' = [trainer EXCEPT
                     !.global_step = @ + 1,
                     !.batch_idx = @ + 1,
                     !.phase = IF trainer.batch_idx + 1 = dataset.length
                               THEN "epoch_end" ELSE "batch_end"]
    /\ UNCHANGED << args, pc, error, dataset, total_steps, model, gpu_devices,
                    saver, dirs_on_disk, files, saves, delivered >>

\* The engine after an epoch-end event: the next epoch starts, or fit returns.
EngineNextEpoch ==
    /\ pc = "fit"
    /\ trainer.phase = "epoch_advance"
    /\ IF trainer.current_epoch + 1 = trainer.max_epochs
       THEN /\ trainer' = [trainer EXCEPT !.current_epoch = @ + 1,
                                          !.batch_idx = 0, !.phase = "idle"]
            /\ pc' = "final"
       ELSE /\ trainer' = [trainer EXCEPT !.current_epoch = @ + 1,
                                          !.batch_idx = 0, !.phase = "batch_end"]
            /\ pc' = "fit"
    /\ UNCHANGED << args, error, dataset, total_steps, model, gpu_devices,
                    saver, dirs_on_disk, files, saves, delivered >>

\* The process is stopped from outside before the final save.
Terminate ==
    /\ pc \in {"fit", "final"}
    /\ pc' = "terminated"
    /\ UNCHANGED << args, error, dataset, total_steps, model, gpu_devices, saver,
                    dirs_on_disk, trainer, files, saves, delivered >>

\* ------------------------------------------------------ CheckpointSaver
\* trainer.save_checkpoint(path) writes the trainer's state as it is at the call.
Snapshot_Previous(t) ==
    [epoch |-> t.current_epoch, step |-> t.global_step - 1, batch |-> t.batch_idx - 1]
Snapshot(t) ==
    [epoch |-> t.current_epoch, step |-> t.global_step, batch |-> t.batch_idx]

\* The write succeeds, or fails with an I/O error that leaves the target
\* untouched or leaves a truncated file behind.
SaveOutcomes == {"ok", "fail", "fail_partial"}

Written(fs, path, snap, outcome) ==
    CASE outcome = "ok" -> (path :> [state |-> snap, complete |-> TRUE]) @@ fs
      [] outcome = "fail_partial" -> (path :> [state |-> snap, complete |-> FALSE]) @@ fs
      [] OTHER -> fs

\* No handler and no caller catches the exception of a failed write: control
\* reaches the statement after the call only when the write succeeded.
AfterSave_Swallow(outcome, next) == next
AfterSave(outcome, next) == IF outcome = "ok" THEN next ELSE "aborted"

\* lines 22-26
on_epoch_end ==
    /\ pc = "fit"
    /\ trainer.phase = "epoch_end"
    /\ LET epoch == trainer.current_epoch IN
       /\ delivered' = [delivered EXCEPT !.epochs = @ \cup {epoch}]
       /\ IF EpochQualifies(epoch, saver.save_every_n_epochs)
          THEN \E outcome \in SaveOutcomes :
                 /\ files' = Written(files, EpochFile(saver.filename_prefix, epoch),
                                     Snapshot(trainer), outcome)
                 /\ saves' = [saves EXCEPT !.epoch = @ + 1]
                 /\ pc' = AfterSave(outcome, "fit")
                 /\ error' = IF pc' = "aborted" THEN "IOError" ELSE error
          ELSE UNCHANGED << files, saves, pc, error >>
    /\ trainer' = IF pc' = "aborted" THEN trainer
                  ELSE [trainer EXCEPT !.phase = "epoch_advance"]
    /\ UNCHANGED << args, dataset, total_steps, model, gpu_devices, saver,
                    dirs_on_disk >>

\* lines 28-33
on_batch_end ==
    /\ pc = "fit"
    /\ trainer.phase = "batch_end"
    /\ LET current_step == trainer.global_step IN
       /\ delivered' = [delivered EXCEPT !.steps = @ + 1, !.last_step = current_step]
       /\ IF StepQualifies(current_step, saver.save_every_n_steps)
          THEN \E outcome \in SaveOutcomes :
                 /\ files' = Written(files, LatestFile(saver.filename_prefix),
                                     Snapshot(trainer), outcome)
                 /\ saves' = [saves EXCEPT !.latest = @ + 1]
                 /\ pc' = AfterSave(outcome, "fit")
                 /\ error' = IF pc' = "aborted" THEN "IOError" ELSE error
          ELSE UNCHANGED << files, saves, pc, error >>
    /\ trainer' = IF pc' = "aborted" THEN trainer
                  ELSE [trainer EXCEPT !.phase = "batch_advance"]
    /\ UNCHANGED << args, dataset, total_steps, model, gpu_devices, saver,
                    dirs_on_disk >>

\* lines 35-37, called from line 141 once trainer.fit has returned
save_final_checkpoint ==
    /\ pc = "final"
    /\ \E outcome \in SaveOutcomes :
         /\ files' = Written(files, FinalFile(saver.filename_prefix),
                             Snapshot(trainer), outcome)
         /\ saves' = [saves EXCEPT !.final = @ + 1]
         /\ pc' = AfterSave(outcome, "done")
         /\ error' = IF pc' = "aborted" THEN "IOError" ELSE error
    /\ UNCHANGED << args, dataset, total_steps, model, gpu_devices, saver,
                    dirs_on_disk, trainer, delivered >>

Next ==
    \/ PrepareDatasets
    \/ BuildModel
    \/ SelectDevices
    \/ CreateSaver
    \/ CreateTrainer
    \/ on_batch_end
    \/ EngineNextBatch
    \/ on_epoch_end
    \/ EngineNextEpoch
    \/ save_final_checkpoint
    \/ Terminate

Spec == Init /\ [][Next]_vars

\* ------------------------------------------------- vocabulary of the claims
Ne == args.save_every_epochs
Ns == args.save_every_steps
ArtifactEpoch(E) == args.output_name_prefix \o "_epoch_" \o ToString(E) \o ".ckpt"
ArtifactLatest == args.output_name_prefix \o "_latest.ckpt"
ArtifactFinal == args.output_name_prefix \o "_final.ckpt"
EpochArtifacts == { f \in DOMAIN files : f # ArtifactLatest /\ f # ArtifactFinal }
Intact(f) == f \in DOMAIN files /\ files[f].complete
\* the exception of a failed write left the handler named by the trainer's phase
FailedIn(phase) == pc = "aborted" /\ error = "IOError" /\ trainer.phase = phase
SetMax(S) == CHOOSE m \in S : \A x \in S : x <= m

\* C1: an epoch-end event for epoch E writes {prefix}_epoch_{E}.ckpt iff
\* E mod Ne = 0, and an event with E mod Ne # 0 writes nothing: of the epochs
\* delivered so far exactly the multiples of Ne have had a save, each to its own
\* name, and no other epoch artifact exists.
C1_EpochCheckpointIffCadence ==
    /\ \A E \in delivered.epochs :
         IF E % Ne = 0
         THEN \/ /\ Intact(ArtifactEpoch(E))
                 /\ files[ArtifactEpoch(E)].state.epoch = E
              \/ FailedIn("epoch_end") /\ E = SetMax(delivered.epochs)
         ELSE ArtifactEpoch(E) \notin DOMAIN files
    /\ saves.epoch = Cardinality({E \in delivered.epochs : E % Ne = 0})
    /\ \A f \in EpochArtifacts :
         \E E \in delivered.epochs : E % Ne = 0 /\ f = ArtifactEpoch(E)

C1_Witness ==
    /\ Ne = 2
    /\ delivered.epochs = {0, 1, 2}
    /\ Intact(ArtifactEpoch(0)) /\ Intact(ArtifactEpoch(2))
    /\ ArtifactEpoch(1) \notin DOMAIN files

\* C2: with the step cadence Ns set, after each step-end event the latest
\* artifact holds the run state of the greatest step S <= the event's step with
\* S mod Ns = 0; with Ns unset no step-end event saves anything.
C2_LatestIsGreatestMultiple ==
    /\ ( /\ ~Ns.isNone
         /\ delivered.steps > 0
         /\ ~FailedIn("batch_end") )
       => LET S == (delivered.last_step \div Ns.n) * Ns.n IN
          /\ Intact(ArtifactLatest)
          /\ files[ArtifactLatest].state.step = S
          /\ files[ArtifactLatest].state.epoch = S \div dataset.length
          /\ files[ArtifactLatest].state.batch = S % dataset.length
    /\ Ns.isNone => saves.latest = 0 /\ ArtifactLatest \notin DOMAIN files

C2_Witness ==
    /\ ~Ns.isNone /\ Ns.n = 2
    /\ pc = "fit" /\ trainer.phase = "batch_advance"
    /\ delivered.last_step = 3
    /\ files[ArtifactLatest].state.step = 2

\* C3: a run has at most one final save, made only after trainer.fit has
\* returned, and a run that completes has made exactly one and left an intact
\* {prefix}_final.ckpt, whatever the cadences and whether or not the last epoch
\* or step was a cadence boundary.
C3_ExactlyOneFinal ==
    /\ saves.final <= 1
    /\ saves.final = 1 =>
         /\ pc \in {"done", "aborted"}
         /\ trainer.phase = "idle"
         /\ trainer.current_epoch = args.epochs
    /\ pc = "done" =>
         /\ saves.final = 1
         /\ Intact(ArtifactFinal)
         /\ files[ArtifactFinal].state.step = dataset.length * args.epochs
    /\ ArtifactFinal \in DOMAIN files => saves.final = 1

C3_Witness ==
    /\ pc = "done"
    /\ Intact(ArtifactFinal)
    /\ (args.epochs - 1) % Ne # 0
    /\ ~Ns.isNone /\ delivered.last_step % Ns.n # 0

\* C4: a failed checkpoint write aborts the run at once. While the run has not
\* aborted every save made so far has left an intact file (none was skipped);
\* a step makes at most one save (none is retried); and once the run has
\* aborted no event is delivered, nothing is saved and no file changes.
C4_NothingSkipped ==
    pc # "aborted" =>
        /\ \A f \in DOMAIN files : files[f].complete
        /\ saves.epoch = Cardinality(EpochArtifacts)
        /\ saves.latest > 0 => ArtifactLatest \in DOMAIN files
        /\ saves.final > 0 => ArtifactFinal \in DOMAIN files

C4_AbortIsFinal ==
    /\ (saves.epoch' + saves.latest' + saves.final')
         - (saves.epoch + saves.latest + saves.final) \in {0, 1}
    /\ (\E f \in DOMAIN files' : ~files'[f].complete) => pc' = "aborted"
    /\ pc = "aborted" =>
         /\ pc' = "aborted"
         /\ files' = files
         /\ saves' = saves
         /\ delivered' = delivered
         /\ trainer' = trainer

\* C4: every reachable state has skipped no save, and every step obeys the
\* fail-fast rule above.
C4_FailFast == []C4_NothingSkipped /\ [][C4_AbortIsFinal]_vars

C4_Witness ==
    /\ pc = "aborted" /\ error = "IOError"
    /\ saves.epoch >= 1 /\ saves.latest >= 2
    /\ trainer.phase = "batch_end"
    /\ files[ArtifactLatest].complete

\* C5 (as amended): train() turns every integer device value other than -1 into
\* the one-element list of it and hands every other value (-1, a list, a string,
\* None) to the engine as given; train() itself refuses no device value: the
\* step after the device lines is always the construction of the saver.
C5_Resolved ==
    LET a == args.gpu_devices IN
    ( \/ pc \in {"saver", "trainer", "fit", "final", "done", "terminated"}
      \/ pc = "aborted" /\ error # "ValueError" )
    => /\ (a.t = "int" /\ a.n >= 0) => gpu_devices = GpuList(<<a.n>>)
       /\ (a.t = "int" /\ a.n = -1) => gpu_devices = GpuInt(-1)
       /\ (a.t = "int" /\ a.n < -1) => gpu_devices = GpuList(<<a.n>>)
       /\ a.t \in {"list", "str", "none"} => gpu_devices = a
       /\ trainer.created => trainer.gpus = gpu_devices

NumEntries(str) == Cardinality({i \in 1..Len(str) : str[i] = ","}) + 1

RECURSIVE JoinDirs(_)
JoinDirs(ds) ==
    IF Len(ds) = 1 THEN ds[1] ELSE ds[1] \o <<",">> \o JoinDirs(Tail(ds))

NothingDone ==
    /\ ~dataset.loaded
    /\ model.kind = "none"
    /\ dirs_on_disk = {}
    /\ ~saver.created /\ ~trainer.created
    /\ files = <<>>
    /\ saves.epoch + saves.latest + saves.final = 0

\* C6: fewer than two entries in merge mode end train() with ValueError and
\* nothing done; two or more are all loaded, in the order of data_dir.
C6_MergeValidation ==
    /\ (args.merge_datasets /\ NumEntries(args.data_dir) < 2) =>
         /\ pc \in {"start", "aborted"}
         /\ pc = "aborted" => error = "ValueError"
         /\ NothingDone
    /\ error = "ValueError" =>
         args.merge_datasets /\ NumEntries(args.data_dir) < 2
    /\ (args.merge_datasets /\ NumEntries(args.data_dir) >= 2 /\ pc # "start") =>
         /\ dataset.loaded
         /\ Len(dataset.members) = NumEntries(args.data_dir)
         /\ JoinDirs(dataset.members) = args.data_dir
         /\ \A i \in 1..Len(dataset.members) :
              \A j \in 1..Len(dataset.members[i]) : dataset.members[i][j] # ","

C6_Witness ==
    /\ args.merge_datasets /\ args.data_dir = <<"C">>
    /\ pc = "aborted" /\ error = "ValueError"

\* C7: the run with merged directories of 100 and 50 items, epochs=3,
\* save_every_epochs=1 and save_every_steps=None, once complete, has written
\* exactly the three epoch checkpoints and the final checkpoint, and no latest
\* artifact exists.
Scenario ==
    /\ args.merge_datasets /\ args.data_dir = <<"A", ",", "B">>
    /\ args.epochs = 3 /\ Ne = 1 /\ Ns.isNone

\* C7: the completed scenario run leaves exactly epoch_0, epoch_1, epoch_2 and
\* final on disk, all intact, and no latest.
C7_EndToEnd ==
    (Scenario /\ pc = "done") =>
        /\ dataset.length = 150
        /\ DOMAIN files = {ArtifactEpoch(0), ArtifactEpoch(1), ArtifactEpoch(2),
                           ArtifactFinal}
        /\ Cardinality(DOMAIN files) = 4
        /\ \A f \in DOMAIN files : files[f].complete
        /\ saves = [epoch |-> 3, latest |-> 0, final |-> 1]
        /\ ArtifactLatest \notin DOMAIN files

C7_Witness == Scenario /\ pc = "done" /\ delivered.steps = 450

\* C8: the total_steps handed to the model is len(dataset) * epochs, whichever
\* model class is built.
C8_TotalSteps ==
    model.kind # "none" =>
        /\ model.total_steps = dataset.length * args.epochs
        /\ total_steps = model.total_steps

C8_Witness ==
    /\ model.kind = "CLIPCaptionPrefixOnly"
    /\ dataset.length = 150 /\ args.epochs = 3
    /\ model.total_steps = 450

\* C9: the three kinds of artifact are independent. No step of the run changes
\* an epoch artifact that exists; a step-end event changes no file but
\* {prefix}_latest.ckpt; stopping the run changes no file, and a stopped run
\* changes none afterwards.
C9_Frame ==
    /\ \A f \in EpochArtifacts : f \in DOMAIN files' /\ files'[f] = files[f]
    /\ (pc = "fit" /\ trainer.phase = "batch_end") =>
         \A f \in (DOMAIN files \cup DOMAIN files') \ {ArtifactLatest} :
             f \in DOMAIN files /\ f \in DOMAIN files' /\ files'[f] = files[f]
    /\ (pc' = "terminated" \/ pc = "terminated") => files' = files

\* C9: every step of every run leaves the other kinds of artifact as they were.
C9_IndependentArtifacts == [][C9_Frame]_vars

C9_Witness ==
    /\ pc = "terminated"
    /\ saves.latest >= 3 /\ saves.epoch >= 2
    /\ Intact(ArtifactEpoch(0)) /\ Intact(ArtifactLatest)
    /\ files[ArtifactEpoch(0)].state.epoch = 0

\* C10: a save is made inside the handler of the event that triggers it: when
\* the handler has returned and the engine has not yet advanced, the artifact of
\* a qualifying event already holds the trainer's present state; an epoch
\* artifact always holds the state at the end of its own epoch; and the number
\* of latest saves is the number of qualifying step events delivered, none
\* deferred and none repeated.
C10_Synchronous ==
    /\ (pc = "fit" /\ trainer.phase = "epoch_advance"
          /\ trainer.current_epoch % Ne = 0) =>
         /\ Intact(ArtifactEpoch(trainer.current_epoch))
         /\ files[ArtifactEpoch(trainer.current_epoch)].state =
              [epoch |-> trainer.current_epoch, step |-> trainer.global_step,
               batch |-> trainer.batch_idx]
    /\ (pc = "fit" /\ trainer.phase = "batch_advance"
          /\ ~Ns.isNone /\ trainer.global_step % Ns.n = 0) =>
         /\ Intact(ArtifactLatest)
         /\ files[ArtifactLatest].state =
              [epoch |-> trainer.current_epoch, step |-> trainer.global_step,
               batch |-> trainer.batch_idx]
    /\ \A E \in delivered.epochs :
         Intact(ArtifactEpoch(E)) =>
            files[ArtifactEpoch(E)].state =
              [epoch |-> E, step |-> (E + 1) * dataset.length,
               batch |-> dataset.length]
    /\ (~Ns.isNone /\ delivered.steps > 0) =>
         saves.latest = (delivered.last_step \div Ns.n) + 1

C10_Witness ==
    /\ pc = "fit" /\ trainer.phase = "epoch_advance"
    /\ trainer.current_epoch = 1
    /\ Intact(ArtifactEpoch(1))
    /\ files[ArtifactEpoch(1)].state.epoch = 1

====
